---- MODULE Spec2Model ----
(***************************************************************************)
(* Model of the vue-maplibre-gl component bindings:                        *)
(*   - MglHillshadeLayer (src/lib/components/layers/hillshade.layer.ts)    *)
(*   - MglPopup          (src/lib/components/popup.component.ts)           *)
(* The map engine and the framework's watch / lifecycle primitives are     *)
(* modelled by the effect of the calls the components make on them.        *)
(***************************************************************************)
EXTENDS Integers, Sequences, FiniteSets, TLC

\* Bound on the number of mutations of the readiness cells in one behaviour.
MaxChanges == 4

\* Bound on the number of prop changes, exposed calls and engine events of
\* the popup in one behaviour.
MaxPopupOps == 3

\* JavaScript's undefined; every optional value is a string so that values
\* of one cell stay comparable.
Undef == "undefined"

LayerIds == {"layerA"}
SourceVals == {Undef, "srcX", "inline"}
BeforeVals == {Undef, "", "layerB"}
HandlerSets == {{"click"}, {"click", "mouseleave"}}
LayerEvents == {"click", "mouseleave"}

VARIABLES
  \* --- hillshade layer component: injected values and props ---
  injSourceId,       \* inject(sourceIdSymbol): Undef or a source id
  propSource,        \* props.source: Undef, a source id, or an inline object
  propBefore,        \* props.before
  layerId,           \* props.layerId
  vnodeHandlers,     \* events for which ci.vnode carries a handler
  \* --- readiness cells owned by the ancestors ---
  isLoaded,          \* inject(isLoadedSymbol).value
  sourceRef,         \* SourceLib.getSourceRef(...).value: "true" | "false" | Undef
  nChanges,          \* number of mutations of the two cells so far
  \* --- the binding ---
  lpc,               \* "uninit" | "mounted" | "aborted" | "unmounted"
  warned,            \* warn(...) was called
  teardownRegistered,\* useDisposableLayer registered its unmount hook
  watcherActive,     \* the watch of [isLoaded, sourceRef] is running
  watchOld,          \* the pair the watcher saw last
  jobPending,        \* the watcher's job is queued
  \* --- the engine, as seen through the binding's calls ---
  engineLayers,      \* ids of the layers present in the engine
  engineListeners,   \* per layer event, number of forwarded listeners attached
  calls,             \* addLayer / removeLayer calls issued, in order
  obs,               \* pairs the watcher callback was invoked with, in order
  unmountedAt        \* nChanges at the time of the unmount, -1 before it

layerVars == <<injSourceId, propSource, propBefore, layerId, vnodeHandlers,
               isLoaded, sourceRef, nChanges, lpc, warned, teardownRegistered,
               watcherActive, watchOld, jobPending, engineLayers,
               engineListeners, calls, obs, unmountedAt>>

VARIABLES
  \* --- popup component: injected values and props ---
  pMarker,           \* inject(markerSymbol) is a handle with a value
  pMap,              \* inject(mapSymbol) is defined
  pCoordinates,      \* props.coordinates
  pText,             \* props.text
  pClassName,        \* props.className
  \* --- the component ---
  ppc,               \* "uninit" | "setup" | "mounted" | "unmounted"
  exposedCalls,      \* number of calls of the exposed remove() by its holder
  nPopupOps,         \* number of prop changes, exposed calls and engine events
  \* --- the engine popup ---
  popup,             \* [onMap, onMarker, lngLat, content, classes, listeners]
  pcalls,            \* calls the component made on the popup / marker, in order
  fired,             \* 'open' / 'close' events the engine popup fired, in order
  emitted            \* framework events the component emitted, in order

popupVars == <<pMarker, pMap, pCoordinates, pText, pClassName, ppc,
               exposedCalls, nPopupOps, popup, pcalls, fired, emitted>>

vars == <<layerVars, popupVars>>

\* a || b of JavaScript on optional strings: undefined and "" are falsy.
JsOr(a, b) == IF a = Undef \/ a = "" THEN b ELSE a

\* hillshade.layer.ts:20  the negation of (!sourceId && !props.source)
SourceResolvable_Always(sid, src) == TRUE
SourceResolvable(sid, src) == ~(JsOr(sid, Undef) = Undef /\ JsOr(src, Undef) = Undef)

\* hillshade.layer.ts:29  the source handed to getSourceRef
ResolvedSource(sid, src) == JsOr(src, sid)

\* SourceLib.getSourceRef: tri-state readiness of the resolved source.
\* An id names a registered ("true") or absent ("false") source; anything
\* else declares no dependency.
getSourceRef(source, registered) ==
  IF source \in {Undef, "inline"} THEN Undef
  ELSE IF registered THEN "true" ELSE "false"

ShouldAdd_NoLoadCheck(il, src) == src = "true" \/ src = Undef
ShouldAdd_UndefUnsatisfied(il, src) == il /\ src = "true"
ShouldAdd_UndefOnly(il, src) == il /\ src = Undef
\* hillshade.layer.ts:34  il && (src || src === undefined)
ShouldAdd(il, src) == il /\ (src = "true" \/ src = Undef)

\* hillshade.layer.ts:35  props.before || undefined
BeforeAnchor(b) == JsOr(b, Undef)

\* LayerLib.genLayerOpts: the options derived from the declared properties.
genLayerOpts(id, type, src, sid) ==
  [id |-> id, type |-> type, source |-> JsOr(src, sid)]

\* hillshade.layer.ts:35  the addLayer call
AddLayerCall ==
  [op |-> "addLayer", id |-> layerId, type |-> "hillshade",
   opts |-> genLayerOpts(layerId, "hillshade", propSource, injSourceId),
   before |-> BeforeAnchor(propBefore)]

\* useDisposableLayer: the removeLayer call
RemoveLayerCall ==
  [op |-> "removeLayer", id |-> layerId, type |-> Undef,
   opts |-> genLayerOpts(layerId, Undef, Undef, Undef), before |-> Undef]

NoListeners == [e \in LayerEvents |-> 0]

\* LayerLib.registerLayerEvents: one forwarded listener per handler of the vnode
registerLayerEvents(ls, handlers) ==
  [e \in LayerEvents |-> IF e \in handlers THEN ls[e] + 1 ELSE ls[e]]

WatchImmediate_Off == FALSE
\* hillshade.layer.ts:38  { immediate: true }
WatchImmediate == TRUE

WatchInSetupScope_Off == FALSE
\* hillshade.layer.ts:33  watch(...) is called synchronously inside setup, so
\* the watcher belongs to the component and is stopped when it is unmounted
WatchInSetupScope == TRUE

UseDisposable_Off == FALSE
\* hillshade.layer.ts:31  useDisposableLayer(props.layerId!, ci)
UseDisposable == TRUE

\* The callback with an else branch that tears the layer down.
WatchCallback_RemoveWhenUnsatisfied(il, src) ==
  /\ obs' = Append(obs, [il |-> il, src |-> src])
  /\ IF ShouldAdd(il, src)
       THEN /\ calls' = Append(calls, AddLayerCall)
            /\ engineLayers' = engineLayers \cup {layerId}
            /\ engineListeners' = registerLayerEvents(engineListeners, vnodeHandlers)
       ELSE IF layerId \in engineLayers
              THEN /\ calls' = Append(calls, RemoveLayerCall)
                   /\ engineLayers' = engineLayers \ {layerId}
                   /\ engineListeners' = NoListeners
              ELSE UNCHANGED <<calls, engineLayers, engineListeners>>

\* hillshade.layer.ts:33-37  the watcher callback, invoked with the pair (il, src)
WatchCallback(il, src) ==
  /\ obs' = Append(obs, [il |-> il, src |-> src])
  /\ IF ShouldAdd(il, src)
       THEN /\ calls' = Append(calls, AddLayerCall)
            /\ engineLayers' = engineLayers \cup {layerId}
            /\ engineListeners' = registerLayerEvents(engineListeners, vnodeHandlers)
       ELSE UNCHANGED <<calls, engineLayers, engineListeners>>

\* The popup before it is constructed: not attached, no content, no class
\* name, no listener.
NoPopup ==
  [onMap |-> FALSE, onMarker |-> FALSE, lngLat |-> Undef,
   content |-> [kind |-> "none", value |-> Undef], classes |-> {},
   listeners |-> {}]

Init ==
  /\ injSourceId \in {Undef, "srcX"}
  /\ propSource \in SourceVals
  /\ propBefore \in BeforeVals
  /\ layerId \in LayerIds
  /\ vnodeHandlers \in HandlerSets
  /\ isLoaded \in BOOLEAN
  /\ \E registered \in BOOLEAN :
       sourceRef = getSourceRef(ResolvedSource(injSourceId, propSource), registered)
  /\ nChanges = 0
  /\ lpc = "uninit"
  /\ warned = FALSE
  /\ teardownRegistered = FALSE
  /\ watcherActive = FALSE
  /\ watchOld = [il |-> FALSE, src |-> Undef]
  /\ jobPending = FALSE
  /\ engineLayers = {}
  /\ engineListeners = NoListeners
  /\ calls = <<>>
  /\ obs = <<>>
  /\ unmountedAt = -1
  \* no popup component is instantiated
  /\ pMarker = FALSE
  /\ pMap = FALSE
  /\ pCoordinates = Undef
  /\ pText = Undef
  /\ pClassName = Undef
  /\ ppc = "idle"
  /\ exposedCalls = 0
  /\ nPopupOps = 0
  /\ popup = NoPopup
  /\ pcalls = <<>>
  /\ fired = <<>>
  /\ emitted = <<>>

\* hillshade.layer.ts:16-42  setup(props)
Setup ==
  /\ lpc = "uninit"
  /\ IF ~SourceResolvable(injSourceId, propSource)
       THEN /\ warned' = TRUE
            /\ lpc' = "aborted"
            /\ UNCHANGED <<teardownRegistered, watcherActive, watchOld,
                           engineLayers, engineListeners, calls, obs>>
       ELSE /\ lpc' = "mounted"
            /\ teardownRegistered' = UseDisposable
            /\ watcherActive' = TRUE
            /\ watchOld' = [il |-> isLoaded, src |-> sourceRef]
            /\ IF WatchImmediate
                 THEN WatchCallback(isLoaded, sourceRef)
                 ELSE UNCHANGED <<engineLayers, engineListeners, calls, obs>>
            /\ UNCHANGED warned
  /\ UNCHANGED <<injSourceId, propSource, propBefore, layerId, vnodeHandlers,
                 isLoaded, sourceRef, nChanges, jobPending>>
  /\ UNCHANGED unmountedAt
  /\ UNCHANGED popupVars

\* The ancestor map component: the engine finished loading (one-shot).
SetLoaded ==
  /\ ~isLoaded
  /\ nChanges < MaxChanges
  /\ isLoaded' = TRUE
  /\ nChanges' = nChanges + 1
  /\ jobPending' = (jobPending \/ watcherActive)
  /\ UNCHANGED <<injSourceId, propSource, propBefore, layerId, vnodeHandlers,
                 sourceRef, lpc, warned, teardownRegistered, watcherActive,
                 watchOld, engineLayers, engineListeners, calls, obs>>
  /\ UNCHANGED unmountedAt
  /\ UNCHANGED popupVars

\* The source component registers / unregisters the source with the engine.
SetSource ==
  /\ sourceRef # Undef
  /\ nChanges < MaxChanges
  /\ sourceRef' = (IF sourceRef = "true" THEN "false" ELSE "true")
  /\ nChanges' = nChanges + 1
  /\ jobPending' = (jobPending \/ watcherActive)
  /\ UNCHANGED <<injSourceId, propSource, propBefore, layerId, vnodeHandlers,
                 isLoaded, lpc, warned, teardownRegistered, watcherActive,
                 watchOld, engineLayers, engineListeners, calls, obs>>
  /\ UNCHANGED unmountedAt
  /\ UNCHANGED popupVars

\* hillshade.layer.ts:33-38  the queued watcher job runs: the callback is
\* invoked when one of the two observed values differs from the last seen.
Flush ==
  /\ jobPending
  /\ watcherActive
  /\ jobPending' = FALSE
  /\ IF watchOld # [il |-> isLoaded, src |-> sourceRef]
       THEN /\ watchOld' = [il |-> isLoaded, src |-> sourceRef]
            /\ WatchCallback(isLoaded, sourceRef)
       ELSE UNCHANGED <<watchOld, engineLayers, engineListeners, calls, obs>>
  /\ UNCHANGED <<injSourceId, propSource, propBefore, layerId, vnodeHandlers,
                 isLoaded, sourceRef, nChanges, lpc, warned,
                 teardownRegistered, watcherActive>>
  /\ UNCHANGED unmountedAt
  /\ UNCHANGED popupVars

\* useDisposableLayer's unmount hook: detach the forwarded listeners and
\* remove the layer if the engine has it; the component's watcher stops.
Unmount ==
  /\ lpc \in {"mounted", "aborted"}
  /\ lpc' = "unmounted"
  /\ unmountedAt' = nChanges
  /\ watcherActive' = (watcherActive /\ ~WatchInSetupScope)
  /\ jobPending' = (jobPending /\ ~WatchInSetupScope)
  /\ IF teardownRegistered
       THEN /\ engineListeners' = NoListeners
            /\ IF layerId \in engineLayers
                 THEN /\ calls' = Append(calls, RemoveLayerCall)
                      /\ engineLayers' = engineLayers \ {layerId}
                 ELSE UNCHANGED <<calls, engineLayers>>
       ELSE UNCHANGED <<engineListeners, calls, engineLayers>>
  /\ UNCHANGED <<injSourceId, propSource, propBefore, layerId, vnodeHandlers,
                 isLoaded, sourceRef, nChanges, warned, teardownRegistered,
                 watchOld, obs>>
  /\ UNCHANGED popupVars

LayerNext ==
  \/ Setup
  \/ SetLoaded
  \/ SetSource
  \/ Flush
  \/ Unmount

(***************************************************************************)
(* The popup component                                                     *)
(***************************************************************************)

CoordVals == {Undef, "c1", "c2"}
TextVals == {Undef, "", "hello"}
ClassVals == {Undef, "a", "b"}

\* JavaScript truthiness of an optional string.
Truthy(v) == v # Undef /\ v # ""

\* The component's view of the popup while one handler runs.
PSt == [popup |-> popup, pcalls |-> pcalls, fired |-> fired, emitted |-> emitted]

Commit(st) ==
  /\ popup' = st.popup
  /\ pcalls' = st.pcalls
  /\ fired' = st.fired
  /\ emitted' = st.emitted

\* A call made by the component on the popup (or the marker) is recorded.
Log(st, op, arg) == [st EXCEPT !.pcalls = Append(@, [op |-> op, arg |-> arg])]

\* popup.component.ts:145-146  the popup fires an event; the listener
\* registered by emitEvent, if still attached, emits the framework event.
Fire(st, e) ==
  [st EXCEPT !.fired = Append(@, e),
             !.emitted = IF e \in st.popup.listeners THEN Append(@, e) ELSE @]

\* Popup.remove of the engine: detaches the popup from the map, fires 'close'.
EngineRemove(st) == Fire([st EXCEPT !.popup.onMap = FALSE], "close")

\* Popup.addTo of the engine: removes an attached popup first, fires 'open'.
EngineAddTo(st) ==
  Fire([(IF st.popup.onMap THEN EngineRemove(st) ELSE st)
          EXCEPT !.popup.onMap = TRUE], "open")

\* popup.component.ts:157 and :205  popup.remove()
CallRemove(st) == EngineRemove(Log(st, "remove", Undef))

\* popup.component.ts:135  marker.value.setPopup(popup)
CallSetPopup(st) == [Log(st, "setPopup", Undef) EXCEPT !.popup.onMarker = TRUE]

\* popup.component.ts:137 and :165  popup.setLngLat(v)
CallSetLngLat(st, v) == [Log(st, "setLngLat", v) EXCEPT !.popup.lngLat = v]

\* popup.component.ts:137  .addTo(map.value!)
CallAddTo(st) == EngineAddTo(Log(st, "addTo", Undef))

\* popup.component.ts:141 and :172  popup.setText(v)
CallSetText(st, v) ==
  [Log(st, "setText", v) EXCEPT !.popup.content = [kind |-> "text", value |-> v]]

\* popup.component.ts:200  popup.setDOMContent(root.value!)
CallSetDOMContent(st) ==
  [Log(st, "setDOMContent", "root")
     EXCEPT !.popup.content = [kind |-> "dom", value |-> "root"]]

\* popup.component.ts:146  popup.on(eventName, fn)
CallOn(st, e) == [st EXCEPT !.popup.listeners = @ \cup {e}]

\* popup.component.ts:148  popup.off(eventName, fn)
CallOff(st, e) == [st EXCEPT !.popup.listeners = @ \ {e}]

\* popup.component.ts:132  new Popup(props): the className option is the
\* class name the popup starts with
Construct(st) ==
  [st EXCEPT !.popup.classes = IF Truthy(pClassName) THEN {pClassName} ELSE {}]

\* popup.component.ts:186  popup.removeClassName(previous)
CallRemoveClassName(st, c) ==
  [Log(st, "removeClassName", c) EXCEPT !.popup.classes = @ \ {c}]

\* popup.component.ts:189  popup.addClassName(value)
CallAddClassName(st, c) ==
  [Log(st, "addClassName", c) EXCEPT !.popup.classes = @ \cup {c}]

ClassNameWatch_KeepsPrevious(st, value, previous) ==
  IF Truthy(value) THEN CallAddClassName(st, value) ELSE st
\* popup.component.ts:184-191  the className watcher's callback
ClassNameWatch(st, value, previous) ==
  LET st1 == IF Truthy(previous) THEN CallRemoveClassName(st, previous) ELSE st
  IN IF Truthy(value) THEN CallAddClassName(st1, value) ELSE st1

\* popup.component.ts:172  the text watcher's callback: popup.setText(v || "")
TextWatch(st, v) == CallSetText(st, IF Truthy(v) THEN v ELSE "")

MountedContent_IgnoresText(st) == CallSetDOMContent(st)
\* popup.component.ts:199-201  if (root.value && !props.text) setDOMContent(root)
MountedContent(st) == IF ~Truthy(pText) THEN CallSetDOMContent(st) ELSE st

\* popup.component.ts:134-138  attachment to the marker or to the map
Attach(st) ==
  IF pMarker THEN CallSetPopup(st)
  ELSE IF Truthy(pCoordinates) /\ pMap
         THEN CallAddTo(CallSetLngLat(st, pCoordinates))
         ELSE st

\* popup.component.ts:140-142  initial text
InitialText(st) == IF Truthy(pText) THEN CallSetText(st, pText) ELSE st

UnmountHooks_NoRemove == <<"offOpen", "offClose">>
UnmountHooks_RemoveFirst == <<"remove", "offOpen", "offClose">>
\* popup.component.ts:147-149, :152-153, :204-206  the onBeforeUnmount hooks,
\* in the order of their registration
UnmountHooks == <<"offOpen", "offClose", "remove">>

\* One unmount hook.
RunHook(st, hk) ==
  CASE hk = "offOpen" -> CallOff(st, "open")
    [] hk = "offClose" -> CallOff(st, "close")
    [] hk = "remove" -> CallRemove(st)

RECURSIVE RunHooks(_, _)
\* The framework runs the registered hooks in order.
RunHooks(st, hooks) ==
  IF hooks = <<>> THEN st
  ELSE RunHooks(RunHook(st, Head(hooks)), Tail(hooks))

PopupInit ==
  /\ pMarker \in BOOLEAN
  /\ pMap \in BOOLEAN
  /\ pCoordinates \in {Undef, "c1"}
  /\ pText \in {Undef, "hello"}
  /\ pClassName \in {Undef, "a"}
  /\ ppc = "uninit"
  /\ exposedCalls = 0
  /\ nPopupOps = 0
  /\ popup = NoPopup
  /\ pcalls = <<>>
  /\ fired = <<>>
  /\ emitted = <<>>
  \* no layer component is instantiated
  /\ injSourceId = Undef
  /\ propSource = Undef
  /\ propBefore = Undef
  /\ layerId = Undef
  /\ vnodeHandlers = {}
  /\ isLoaded = FALSE
  /\ sourceRef = Undef
  /\ nChanges = 0
  /\ lpc = "idle"
  /\ warned = FALSE
  /\ teardownRegistered = FALSE
  /\ watcherActive = FALSE
  /\ watchOld = [il |-> FALSE, src |-> Undef]
  /\ jobPending = FALSE
  /\ engineLayers = {}
  /\ engineListeners = NoListeners
  /\ calls = <<>>
  /\ obs = <<>>
  /\ unmountedAt = -1

\* popup.component.ts:127-211  setup(props, { slots, emit, expose })
PopupSetup ==
  /\ ppc = "uninit"
  /\ ppc' = "setup"
  /\ Commit(CallOn(CallOn(InitialText(Attach(Construct(PSt))), "open"), "close"))
  /\ UNCHANGED <<pMarker, pMap, pCoordinates, pText, pClassName,
                 exposedCalls, nPopupOps>>
  /\ UNCHANGED layerVars

\* popup.component.ts:198-202  onMounted: the slot element becomes the content
PopupMounted ==
  /\ ppc = "setup"
  /\ ppc' = "mounted"
  /\ Commit(MountedContent(PSt))
  /\ UNCHANGED <<pMarker, pMap, pCoordinates, pText, pClassName,
                 exposedCalls, nPopupOps>>
  /\ UNCHANGED layerVars

\* popup.component.ts:155-159  the exposed remove()
ExposedRemove ==
  /\ ppc = "mounted"
  /\ nPopupOps < MaxPopupOps
  /\ nPopupOps' = nPopupOps + 1
  /\ exposedCalls' = exposedCalls + 1
  /\ Commit(CallRemove(PSt))
  /\ UNCHANGED <<pMarker, pMap, pCoordinates, pText, pClassName, ppc>>
  /\ UNCHANGED layerVars

\* popup.component.ts:161-169  the coordinates prop changes
SetCoordinates ==
  /\ ppc = "mounted"
  /\ nPopupOps < MaxPopupOps
  /\ nPopupOps' = nPopupOps + 1
  /\ \E v \in CoordVals \ {pCoordinates} :
       /\ pCoordinates' = v
       /\ Commit(IF Truthy(v) THEN CallSetLngLat(PSt, v) ELSE PSt)
  /\ UNCHANGED <<pMarker, pMap, pText, pClassName, ppc, exposedCalls>>
  /\ UNCHANGED layerVars

\* popup.component.ts:170-173  the text prop changes
SetText ==
  /\ ppc = "mounted"
  /\ nPopupOps < MaxPopupOps
  /\ nPopupOps' = nPopupOps + 1
  /\ \E v \in TextVals \ {pText} :
       /\ pText' = v
       /\ Commit(TextWatch(PSt, v))
  /\ UNCHANGED <<pMarker, pMap, pCoordinates, pClassName, ppc, exposedCalls>>
  /\ UNCHANGED layerVars

\* popup.component.ts:182-192  the className prop changes
SetClassName ==
  /\ ppc = "mounted"
  /\ nPopupOps < MaxPopupOps
  /\ nPopupOps' = nPopupOps + 1
  /\ \E v \in ClassVals \ {pClassName} :
       /\ pClassName' = v
       /\ Commit(ClassNameWatch(PSt, v, pClassName))
  /\ UNCHANGED <<pMarker, pMap, pCoordinates, pText, ppc, exposedCalls>>
  /\ UNCHANGED layerVars

\* The engine closes an open popup (close button, click on the map).
EngineClose ==
  /\ ppc \in {"mounted", "unmounted"}
  /\ popup.onMap
  /\ nPopupOps < MaxPopupOps
  /\ nPopupOps' = nPopupOps + 1
  /\ Commit(EngineRemove(PSt))
  /\ UNCHANGED <<pMarker, pMap, pCoordinates, pText, pClassName, ppc,
                 exposedCalls>>
  /\ UNCHANGED layerVars

\* The marker holding the popup is clicked: the engine toggles the popup.
MarkerToggle ==
  /\ ppc \in {"mounted", "unmounted"}
  /\ popup.onMarker
  /\ nPopupOps < MaxPopupOps
  /\ nPopupOps' = nPopupOps + 1
  /\ Commit(IF popup.onMap THEN EngineRemove(PSt) ELSE EngineAddTo(PSt))
  /\ UNCHANGED <<pMarker, pMap, pCoordinates, pText, pClassName, ppc,
                 exposedCalls>>
  /\ UNCHANGED layerVars

\* popup.component.ts:147-149 and :204-206  the component is unmounted
PopupUnmount ==
  /\ ppc = "mounted"
  /\ ppc' = "unmounted"
  /\ Commit(RunHooks(PSt, UnmountHooks))
  /\ UNCHANGED <<pMarker, pMap, pCoordinates, pText, pClassName,
                 exposedCalls, nPopupOps>>
  /\ UNCHANGED layerVars

PopupNext ==
  \/ PopupSetup
  \/ PopupMounted
  \/ ExposedRemove
  \/ SetCoordinates
  \/ SetText
  \/ SetClassName
  \/ EngineClose
  \/ MarkerToggle
  \/ PopupUnmount

Next == LayerNext

\* One hillshade layer binding and its readiness cells.
Spec == Init /\ [][Next]_vars

\* One popup component and its engine popup.
PopupSpec == PopupInit /\ [][PopupNext]_vars

(***************************************************************************)
(* Properties of the hillshade layer binding                               *)
(***************************************************************************)

\* Number of calls of one kind issued to the engine so far.
CountOp(op) == Cardinality({i \in 1..Len(calls) : calls[i].op = op})
AddCount == CountOp("addLayer")
RemoveCount == CountOp("removeLayer")

\* The satisfied condition of the readiness pair, as the specification states it.
Satisfied(il, src) == il = TRUE /\ src \in {"true", Undef}
EverSatisfied == \E i \in 1..Len(obs) : Satisfied(obs[i].il, obs[i].src)
LayerPresent == layerId \in engineLayers

\* C1: no addLayer call is issued in a step where the engine-ready flag is
\* false or the source readiness is false; while the engine is not ready no
\* addLayer call has been issued at all.
C1_ReadinessGating ==
  /\ [](~isLoaded => AddCount = 0)
  /\ [][AddCount' > AddCount =>
          (isLoaded /\ isLoaded' /\ sourceRef # "false" /\ sourceRef' # "false")]_vars

\* C1 witness: mounted while the engine was not ready, the layer was added later.
C1_Witness ==
  /\ Len(obs) >= 2
  /\ obs[1].il = FALSE
  /\ AddCount = 1

\* C2: at most one addLayer call is issued per layer id between mount and
\* unmount, whatever the sequence of readiness changes.
C2_AtMostOneAdd == AddCount <= 1

\* C3: the layer is present in the engine if and only if the engine is ready,
\* the source readiness is true or undefined, and the component is mounted.
C3_PresentIffSatisfied ==
  LayerPresent <=> (isLoaded /\ sourceRef # "false" /\ lpc = "mounted")

\* C3 (amended): a present layer implies a mounted component, a ready engine
\* and an earlier observation of a satisfied pair; a mounted component whose
\* observer has caught up with a satisfied pair has its layer present.
C3_PresentAmended ==
  /\ LayerPresent => (lpc = "mounted" /\ isLoaded /\ EverSatisfied)
  /\ (lpc = "mounted" /\ ~jobPending /\ isLoaded /\ sourceRef # "false")
        => LayerPresent

\* C3 witness: the layer stays present after its source readiness turned false.
C3_Witness ==
  /\ LayerPresent
  /\ lpc = "mounted"
  /\ sourceRef = "false"
  /\ ~jobPending

\* C4: a binding set up while the pair is already satisfied issues exactly one
\* addLayer call within setup, as the first and only observation so far.
C4_ImmediateAdd ==
  [][(lpc = "uninit" /\ lpc' = "mounted" /\ isLoaded /\ sourceRef # "false")
       => (AddCount' = 1 /\ Len(obs') = 1
           /\ Satisfied(obs'[1].il, obs'[1].src))]_vars

\* C4 witness: right after such a setup, before any readiness change.
C4_Witness ==
  /\ lpc = "mounted"
  /\ nChanges = 0
  /\ Len(obs) = 1
  /\ AddCount = 1

\* C5: a binding unmounted before a satisfied pair was ever observed has
\* issued no engine call; removeLayer is never issued for an id not added.
C5_NoRemoveWithoutAdd ==
  /\ (lpc = "unmounted" /\ ~EverSatisfied) => calls = <<>>
  /\ \A i \in 1..Len(calls) :
       calls[i].op = "removeLayer" =>
         \E j \in 1..(i - 1) : calls[j].op = "addLayer" /\ calls[j].id = calls[i].id

\* C5 witness: unmounted after an unsatisfied observation only.
C5_Witness ==
  /\ lpc = "unmounted"
  /\ Len(obs) >= 1
  /\ ~EverSatisfied
  /\ calls = <<>>

\* C6: unmounting after the layer was created issues exactly one removeLayer
\* call and leaves neither the layer nor a forwarded listener in the engine;
\* the layer is never removed twice.
C6_UnmountRemovesOnce ==
  /\ RemoveCount <= 1
  /\ (lpc = "unmounted" /\ AddCount >= 1) =>
       (RemoveCount = 1 /\ ~LayerPresent /\ engineListeners = NoListeners)

\* C6 witness: unmounted after creation, listeners had been attached.
C6_Witness ==
  /\ lpc = "unmounted"
  /\ AddCount >= 1
  /\ RemoveCount = 1
  /\ calls[Len(calls)].op = "removeLayer"

\* C7: with neither an injected source id nor a source prop, setup records a
\* warning and aborts: no watcher, no teardown hook, no engine call, ever.
C7_UnresolvedSourceAborts ==
  (injSourceId = Undef /\ propSource = Undef /\ lpc # "uninit") =>
    /\ warned
    /\ lpc \in {"aborted", "unmounted"}
    /\ ~watcherActive
    /\ ~teardownRegistered
    /\ ~jobPending
    /\ obs = <<>>
    /\ calls = <<>>
    /\ engineLayers = {}

\* C7 witness: aborted setup, the engine became ready afterwards.
C7_Witness ==
  /\ injSourceId = Undef
  /\ propSource = Undef
  /\ lpc = "aborted"
  /\ warned
  /\ isLoaded
  /\ nChanges > 0

\* C8: set up with the engine ready and the declared source not ready, the
\* observer step that sees the source become ready issues the first and only
\* addLayer call; none is issued before.
C8_AddAtSourceFlip ==
  /\ []((Len(obs) = 1 /\ obs[1] = [il |-> TRUE, src |-> "false"]) => AddCount = 0)
  /\ [][(/\ Len(obs) = 1
         /\ obs[1] = [il |-> TRUE, src |-> "false"]
         /\ lpc = "mounted" /\ lpc' = "mounted"
         /\ sourceRef = "true"
         /\ jobPending /\ ~jobPending')
          => (AddCount' = 1 /\ Len(obs') = 2)]_vars

\* C8 witness: the flip was observed and the layer added by that observation.
C8_Witness ==
  /\ Len(obs) = 2
  /\ obs[1] = [il |-> TRUE, src |-> "false"]
  /\ obs[2] = [il |-> TRUE, src |-> "true"]
  /\ AddCount = 1

\* C9: with source readiness undefined the binding waits while the engine is
\* not ready, and once the observer has seen the engine ready exactly one
\* addLayer call was issued: layer id, type 'hillshade', the derived options,
\* and the anchor undefined when no 'before' prop is set.
C9_UndefinedIsSatisfied ==
  (lpc = "mounted" /\ sourceRef = Undef) =>
    /\ ~isLoaded => AddCount = 0
    /\ (isLoaded /\ ~jobPending) =>
         /\ Len(calls) = 1
         /\ calls[1].op = "addLayer"
         /\ calls[1].id = layerId
         /\ calls[1].type = "hillshade"
         /\ calls[1].opts = [id |-> layerId, type |-> "hillshade",
                             source |-> IF propSource # Undef THEN propSource
                                        ELSE injSourceId]
         /\ propBefore = Undef => calls[1].before = Undef
         /\ propBefore = "layerB" => calls[1].before = "layerB"

\* C9 witness: waited with the engine not ready, then created without anchor.
C9_Witness ==
  /\ lpc = "mounted"
  /\ sourceRef = Undef
  /\ Len(obs) = 2
  /\ obs[1].il = FALSE
  /\ propBefore = Undef
  /\ AddCount = 1

(***************************************************************************)
(* Properties of the popup component                                       *)
(***************************************************************************)

PopupRemoveCount ==
  Cardinality({i \in 1..Len(pcalls) : pcalls[i].op = "remove"})

\* C10: unmounting the popup component calls popup.remove(), leaving the
\* popup off the map, however often the exposed remove() was called before;
\* each exposed remove() takes the popup off the map and the component goes on.
C10_UnmountRemovesPopup ==
  /\ [](ppc = "unmounted" => PopupRemoveCount = exposedCalls + 1)
  /\ [][(ppc = "mounted" /\ ppc' = "unmounted") =>
          (~popup'.onMap /\ pcalls' = Append(pcalls, [op |-> "remove", arg |-> Undef]))]_vars
  /\ [][exposedCalls' > exposedCalls =>
          (~popup'.onMap /\ ppc' = "mounted"
           /\ pcalls' = Append(pcalls, [op |-> "remove", arg |-> Undef]))]_vars

\* C10 witness: removed through the exposed operation, reopened by the
\* marker, then unmounted.
C10_Witness ==
  /\ ppc = "unmounted"
  /\ exposedCalls >= 1
  /\ ~popup.onMap
  /\ Len(fired) >= 3
  /\ fired[Len(fired) - 1] = "open"
  /\ fired[Len(fired)] = "close"
  /\ pcalls[Len(pcalls)].op = "remove"

PopupCallsOf(op) == {i \in 1..Len(pcalls) : pcalls[i].op = op}

\* C11: the component emits 'open' / 'close' exactly once for every 'open' /
\* 'close' event the engine popup fires, and emits nothing else.
C11_EmitPerEngineEvent == emitted = fired

\* C12: inside a marker the coordinates prop is unused: the popup is handed to
\* the marker, never added to the map by the component, and setLngLat is
\* never called, neither for the initial coordinates nor for a later change.
C12_CoordinatesUnusedInMarker ==
  (pMarker /\ ppc # "uninit") =>
    /\ PopupCallsOf("setPopup") # {}
    /\ PopupCallsOf("addTo") = {}
    /\ PopupCallsOf("setLngLat") = {}

(***************************************************************************)
(* Further properties of the hillshade layer binding                       *)
(***************************************************************************)

\* C13: Removed is terminal: once the component is unmounted, no change of
\* the engine-ready flag or of source readiness produces an addLayer call, a
\* removeLayer call or another observation.
C13_RemovedIsTerminal ==
  [][lpc = "unmounted" =>
       (lpc' = "unmounted" /\ calls' = calls /\ obs' = obs
        /\ engineLayers' = engineLayers)]_vars

\* C13 witness: the pair became satisfied by a change made after the unmount
\* of a binding that never saw it satisfied; nothing was added.
C13_Witness ==
  /\ lpc = "unmounted"
  /\ unmountedAt >= 0
  /\ nChanges > unmountedAt
  /\ Len(obs) >= 1
  /\ ~EverSatisfied
  /\ isLoaded
  /\ sourceRef # "false"
  /\ calls = <<>>

\* C14: there is no way back from Created to WaitingForReadiness: while the
\* component stays mounted a created layer stays in the engine with its
\* forwarded listeners, and no removeLayer call is issued, also when source
\* readiness turns false.
C14_NoReturnToWaiting ==
  /\ [](lpc = "mounted" =>
          /\ RemoveCount = 0
          /\ AddCount >= 1 =>
               (LayerPresent /\ \A e \in vnodeHandlers : engineListeners[e] >= 1))
  /\ [][(lpc = "mounted" /\ lpc' = "mounted" /\ LayerPresent) =>
          /\ LayerPresent'
          /\ \A e \in LayerEvents : engineListeners'[e] >= engineListeners[e]]_vars

\* C14 witness: the observer ran on source readiness turned false after the
\* layer was created; the layer and its listeners are still there.
C14_Witness ==
  /\ lpc = "mounted"
  /\ Len(obs) >= 2
  /\ Satisfied(obs[Len(obs) - 1].il, obs[Len(obs) - 1].src)
  /\ obs[Len(obs)] = [il |-> TRUE, src |-> "false"]
  /\ LayerPresent
  /\ RemoveCount = 0
  /\ \A e \in vnodeHandlers : engineListeners[e] >= 1

(***************************************************************************)
(* Further properties of the popup component                               *)
(***************************************************************************)

HeldClasses(c) == IF c \in {Undef, ""} THEN {} ELSE {c}

\* C16: the class names the component gave the popup and did not take back
\* are exactly the current className value; a change takes back the previous
\* value, then gives the new one, and only a held class is ever taken back.
C16_ClassNamesFollowProp ==
  /\ [](ppc \in {"setup", "mounted", "unmounted"} =>
          popup.classes = HeldClasses(pClassName))
  /\ [][pClassName' # pClassName =>
          pcalls' = pcalls
                    \o (IF HeldClasses(pClassName) = {} THEN <<>>
                        ELSE <<[op |-> "removeClassName", arg |-> pClassName]>>)
                    \o (IF HeldClasses(pClassName') = {} THEN <<>>
                        ELSE <<[op |-> "addClassName", arg |-> pClassName']>>)]_vars
  /\ [][\A i \in (Len(pcalls) + 1)..Len(pcalls') :
          pcalls'[i].op = "removeClassName" =>
            (pcalls'[i].arg = pClassName /\ pcalls'[i].arg \in popup.classes)]_vars

\* C16 witness: the class name was replaced and then unset.
C16_Witness ==
  /\ ppc = "mounted"
  /\ pClassName = Undef
  /\ popup.classes = {}
  /\ Cardinality(PopupCallsOf("removeClassName")) = 2
  /\ Cardinality(PopupCallsOf("addClassName")) = 1

\* C17: text takes precedence over the slot: the slot element becomes the
\* content only at mount and only if no text is set then; every change of the
\* text prop calls setText with the new value, or "" when it is unset; once
\* setText was called the content is that text and the slot is not restored.
C17_TextOverSlot ==
  /\ [](ppc \in {"mounted", "unmounted"} =>
          IF PopupCallsOf("setText") # {}
            THEN popup.content =
                   [kind |-> "text",
                    value |-> IF pText \in {Undef, ""} THEN "" ELSE pText]
            ELSE popup.content = [kind |-> "dom", value |-> "root"])
  /\ [](Cardinality(PopupCallsOf("setDOMContent")) <= 1)
  /\ [][Len(pcalls') > Len(pcalls) /\ pcalls'[Len(pcalls')].op = "setDOMContent" =>
          (ppc = "setup" /\ ppc' = "mounted" /\ pText \in {Undef, ""})]_vars
  /\ [][pText' # pText =>
          pcalls' = Append(pcalls,
                           [op |-> "setText",
                            arg |-> IF pText' \in {Undef, ""} THEN "" ELSE pText'])]_vars

\* C17 witness: the slot was installed at mount, the text was set and then
\* cleared: the content is the empty text.
C17_Witness ==
  /\ ppc = "mounted"
  /\ pText = Undef
  /\ PopupCallsOf("setDOMContent") # {}
  /\ Cardinality(PopupCallsOf("setText")) = 2
  /\ popup.content = [kind |-> "text", value |-> ""]

====
